---- MODULE Spec2Model ----
(***************************************************************************)
(* State machine of the fund portal's top-level component (src/src/App.jsx): *)
(* the React state slots, the asynchronous loaders loadFundData and          *)
(* loadLPData, the connectWallet flow, the mount-time wallet detection and   *)
(* the wallet's accountsChanged / chainChanged events.                       *)
(*                                                                           *)
(* Granularity: JavaScript runs every continuation to completion, so one     *)
(* action is one continuation: the code between two awaits, together with    *)
(* the continuation of the caller that awaits the finished function (the     *)
(* microtasks that follow a promise's resolution run before any other wallet *)
(* event, network response or render is handled).  State slots written in    *)
(* one continuation are therefore written in one step.                       *)
(* Promise.all is the library primitive: it resolves once all of its reads   *)
(* have resolved and rejects at the first read that rejects.                 *)
(*                                                                           *)
(* An optional value (null in the code) is a sequence of length 0 or 1.      *)
(***************************************************************************)
EXTENDS Integers, Sequences, FiniteSets, Bags

\* ---------------------------------------------------------------- bounds
MaxRuns == 2          \* loadLPData calls in flight at the same time
MaxHistory == 2       \* length of the contract's NAV history
MaxTracked == 1       \* loadLPData calls in flight when their reads are followed one by one

\* ------------------------------------------------------- program constants
ConfigChainId == 84532
UnknownChainCode == 4902

Null == <<>>
\* Wallet addresses: a registered LP (1) and an address that is not one (2).
Addrs == {1, 2}

\* Lists of accounts the wallet can hand out: empty, one account, two accounts.
AccountLists == {<<>>, <<1>>, <<2>>, <<2, 1>>}

\* Chain ids as the wallet reports them: the hexadecimal digits after "0x".
\* 0x14a34 = 84532 (Base Sepolia), 0x2105 = 8453 (Base), 0x1 (Ethereum).
WalletChains == {<<1, 4, 10, 3, 4>>, <<2, 1, 0, 5>>, <<1>>}

\* parseInt(chainId, 16) on the digits after the "0x" prefix.
RECURSIVE parseInt16(_)
parseInt16(digits) ==
    IF Len(digits) = 0 THEN 0
    ELSE 16 * parseInt16(SubSeq(digits, 1, Len(digits) - 1)) + digits[Len(digits)]

\* Error codes a rejected wallet_switchEthereumChain request can carry:
\* unknown chain, and 4001 (the user rejected the request).
SwitchErrorCodes == {UnknownChainCode, 4001}

FundReads == {"fundName", "fundDescription", "getCurrentNAV", "totalSupply",
              "fundInceptionDate", "getNavHistoryLength"}
LPReads == {"whitelist", "balanceOf", "getLPValue", "getLPReturn", "lpInfo"}

\* Messages of the error banner.
NoWalletMessage == "Please install MetaMask or another Web3 wallet"
FundErrorMessage == "Failed to load fund data. Please check the contract address."
\* err.message of a rejected wallet request: one message per request method.
WalletErrorMessage(method) == method

\* ------------------------------------------------- the contract (read-only)
\* Position of an address as the contract reports it, after the client's
\* conversions (whole tokens; return rate in percent; dates in days).
Position(a) ==
    [shares |-> 100 * a,
     value |-> 104 * a,
     initialInvestment |-> 100 * a,
     returnRate |-> 4,
     investmentDate |-> 19000 + a]

\* The i-th entry (0-based) of the contract's NAV history, as a chart point.
NavPoint(i) == [timestamp |-> 19000 + i, nav |-> 100 + i]

FundSnapshot ==
    [name |-> "fund", description |-> "description",
     currentNav |-> 104, totalShares |-> 1000, inceptionDate |-> 19000]

\* The contract's whitelist: the odd addresses are registered LPs.
Whitelist(a) == a % 2 = 1

VARIABLES
    hasWallet,      \* window.ethereum is present
    account, isConnecting, isWhitelisted, fundData, lpData, navHistory,
    error, loading, \* the eight useState slots
    fund,           \* the loadFundData call: position, history length, local array
    connect,        \* the connectWallet call: position, granted address, chain,
                    \* requests issued and loadLPData calls made by this attempt
    mount,          \* checkConnectedWallet: "eth_accounts" while awaiting, else "done"
    runs,           \* loadLPData calls in flight: a bag of [addr, origin, pending],
                    \* pending the reads of its Promise.all not yet resolved
    last            \* the continuation that ran last (history)

vars == <<hasWallet, account, isConnecting, isWhitelisted, fundData,
          lpData, navHistory, error, loading, fund, connect, mount, runs, last>>

uiVars == <<account, isConnecting, isWhitelisted, fundData, lpData, navHistory,
            error, loading>>

ConnectIdle == [pc |-> "idle", addr |-> 0, chain |-> -1, issued |-> {}, loads |-> 0]
FundStart == [pc |-> "scalars", historyLen |-> 0, i |-> 0, history |-> <<>>]

\* The record of a step: the continuation that ran, its input (an address, a
\* list length, an index or an error code), the caller of a loadLPData call,
\* and whether a position was held before the step.
Event(op, arg, origin) ==
    [op |-> op, arg |-> arg, origin |-> origin, had |-> lpData # Null]

\* The state right after the component has mounted: the useState defaults
\* and both effects run (loadFundData and checkConnectedWallet started).
Mounted ==
    /\ account = Null
    /\ isConnecting = FALSE
    /\ isWhitelisted = FALSE
    /\ fundData = Null
    /\ lpData = Null
    /\ navHistory = <<>>
    /\ error = Null
    /\ loading = TRUE
    /\ fund = FundStart
    /\ connect = ConnectIdle
    /\ mount = IF hasWallet THEN "eth_accounts" ELSE "done"
    /\ runs = EmptyBag

Init ==
    /\ hasWallet \in BOOLEAN
    /\ last = [op |-> "mount", arg |-> 0, origin |-> "", had |-> FALSE]
    /\ Mounted

\* ------------------------------------------------------------ render paths
ShowsConnectButton == account = Null
ConnectButtonEnabled == ~isConnecting
ShowsErrorBanner == error # Null
\* The chart sits in the branch rendered once loading is false.
ShowsChart == ~loading /\ Len(navHistory) > 1
ShowsYourInvestment ==
    /\ account # Null
    /\ isWhitelisted
    /\ lpData # Null
    /\ lpData[1].shares > 0
ShowsNotWhitelisted == account # Null /\ ~isWhitelisted

\* ------------------------------------------------------------ loadFundData
finishFundData(history) ==
    /\ navHistory' = history
    /\ loading' = FALSE
    /\ fund' = [FundStart EXCEPT !.pc = "done"]

\* Variant of the catch block that only logs the failure.
catchFundDataSilent ==
    /\ loading' = FALSE
    /\ fund' = [FundStart EXCEPT !.pc = "failed"]
    /\ UNCHANGED error

catchFundData ==
    /\ error' = <<FundErrorMessage>>
    /\ loading' = FALSE
    /\ fund' = [FundStart EXCEPT !.pc = "failed"]

\* The six concurrent reads have all resolved; the contract reports len entries.
FundScalarsResolved(len) ==
    /\ fund.pc = "scalars"
    /\ fundData' = <<FundSnapshot>>
    /\ IF len = 0
       THEN /\ navHistory' = <<>>
            /\ loading' = FALSE
            /\ fund' = [FundStart EXCEPT !.pc = "done"]
       ELSE /\ fund' = [fund EXCEPT !.pc = "history", !.historyLen = len, !.i = 0]
            /\ UNCHANGED <<navHistory, loading>>
    /\ last' = Event("loadFundData:scalars", len, "")
    /\ UNCHANGED <<hasWallet, account, isConnecting, isWhitelisted,
                   lpData, error, connect, mount, runs>>

\* One of the six concurrent reads rejects.
FundScalarsRejected(read) ==
    /\ fund.pc = "scalars"
    /\ catchFundData
    /\ last' = Event("loadFundData:scalarsRejected", 0, "")
    /\ UNCHANGED <<hasWallet, account, isConnecting, isWhitelisted,
                   fundData, lpData, navHistory, connect, mount, runs>>

\* Variant that puts each new point in front of the ones fetched before.
FundHistoryResolvedReversed ==
    /\ fund.pc = "history"
    /\ LET history == <<NavPoint(fund.i)>> \o fund.history
       IN IF fund.i + 1 < fund.historyLen
          THEN /\ fund' = [fund EXCEPT !.i = fund.i + 1, !.history = history]
               /\ UNCHANGED <<navHistory, loading>>
          ELSE finishFundData(history)
    /\ last' = Event("loadFundData:history", fund.i, "")
    /\ UNCHANGED <<hasWallet, account, isConnecting, isWhitelisted,
                   fundData, lpData, error, connect, mount, runs>>

\* contract.navHistory(fund.i) resolves.
FundHistoryResolved ==
    /\ fund.pc = "history"
    /\ LET history == Append(fund.history, NavPoint(fund.i))
       IN IF fund.i + 1 < fund.historyLen
          THEN /\ fund' = [fund EXCEPT !.i = fund.i + 1, !.history = history]
               /\ UNCHANGED <<navHistory, loading>>
          ELSE finishFundData(history)
    /\ last' = Event("loadFundData:history", fund.i, "")
    /\ UNCHANGED <<hasWallet, account, isConnecting, isWhitelisted,
                   fundData, lpData, error, connect, mount, runs>>

\* contract.navHistory(fund.i) rejects.
FundHistoryRejected ==
    /\ fund.pc = "history"
    /\ catchFundData
    /\ last' = Event("loadFundData:historyRejected", fund.i, "")
    /\ UNCHANGED <<hasWallet, account, isConnecting, isWhitelisted,
                   fundData, lpData, navHistory, connect, mount, runs>>

\* -------------------------------------------------------------- loadLPData
InFlight == BagToSet(runs)

\* loadLPData(addr) is called: its five reads go out.
startLPData(addr, origin) ==
    /\ BagCardinality(runs) < MaxRuns
    /\ runs' = runs (+) SetToBag({[addr |-> addr, origin |-> origin,
                                    pending |-> LPReads]})

\* The body after the awaited Promise.all.
commitLPData(addr) ==
    /\ isWhitelisted' = Whitelist(addr)
    /\ lpData' = IF Whitelist(addr) THEN <<Position(addr)>> ELSE lpData
    /\ UNCHANGED error

\* Variant of the catch block that drops the position held so far.
catchLPDataResets ==
    /\ isWhitelisted' = FALSE
    /\ lpData' = Null
    /\ UNCHANGED error

\* The catch block: the error is logged to the console.
catchLPData ==
    UNCHANGED <<isWhitelisted, lpData, error>>

\* Variant in which connectWallet gives up instead of publishing the account.
afterLPDataBlocked(r) ==
    IF r.origin = "connectWallet"
    THEN /\ isConnecting' = FALSE
         /\ connect' = [connect EXCEPT !.pc = "idle"]
         /\ UNCHANGED account
    ELSE UNCHANGED <<account, isConnecting, connect>>

\* What the caller does once the awaited loadLPData call has returned.
afterLPData(r) ==
    IF r.origin = "connectWallet"
    THEN /\ account' = <<r.addr>>
         /\ isConnecting' = FALSE
         /\ connect' = [connect EXCEPT !.pc = "idle"]
    ELSE UNCHANGED <<account, isConnecting, connect>>

LoadLPDataResolved(r) ==
    /\ BagIn(r, runs)
    /\ commitLPData(r.addr)
    /\ afterLPData(r)
    /\ runs' = runs (-) SetToBag({r})
    /\ last' = Event("loadLPData:resolved", r.addr, r.origin)
    /\ UNCHANGED <<hasWallet, fundData, navHistory, loading, fund, mount>>

\* Variant that writes the whitelist flag as soon as its own read is back.
LPReadResolvedEager(r, read) ==
    /\ BagIn(r, runs)
    /\ read \in r.pending
    /\ r.pending # {read}
    /\ runs' = (runs (-) SetToBag({r}))
                  (+) SetToBag({[r EXCEPT !.pending = @ \ {read}]})
    /\ isWhitelisted' = IF read = "whitelist" THEN Whitelist(r.addr) ELSE isWhitelisted
    /\ last' = Event("loadLPData:readResolved", r.addr, r.origin)
    /\ UNCHANGED <<hasWallet, account, isConnecting, fundData, lpData, navHistory,
                   error, loading, fund, connect, mount>>

\* One of the five reads resolves while others are outstanding: Promise.all
\* keeps the value and goes on waiting.
LPReadResolved(r, read) ==
    /\ BagIn(r, runs)
    /\ read \in r.pending
    /\ r.pending # {read}
    /\ runs' = (runs (-) SetToBag({r}))
                  (+) SetToBag({[r EXCEPT !.pending = @ \ {read}]})
    /\ last' = Event("loadLPData:readResolved", r.addr, r.origin)
    /\ UNCHANGED <<hasWallet, uiVars, fund, connect, mount>>

\* The last outstanding read resolves: Promise.all resolves and the body
\* after the await runs.
LastReadResolved(r, read) ==
    /\ r.pending = {read}
    /\ LoadLPDataResolved(r)

LoadLPDataRejected(r, read) ==
    /\ BagIn(r, runs)
    /\ read \in r.pending
    /\ catchLPData
    /\ afterLPData(r)
    /\ runs' = runs (-) SetToBag({r})
    /\ last' = Event("loadLPData:rejected", r.addr, r.origin)
    /\ UNCHANGED <<hasWallet, fundData, navHistory, loading, fund, mount>>

\* ----------------------------------------------------------- connectWallet
\* The catch block of connectWallet.
catchConnect(method) ==
    /\ error' = <<WalletErrorMessage(method)>>
    /\ isConnecting' = FALSE
    /\ connect' = [connect EXCEPT !.pc = "idle"]

\* Lines 208-209: the call of loadLPData for the granted address.
connectLoadLPData ==
    /\ startLPData(connect.addr, "connectWallet")
    /\ connect' = [connect EXCEPT !.pc = "loadLPData", !.loads = connect.loads + 1]

\* The user presses Connect Wallet (shown while account is null, enabled
\* while isConnecting is false).
ConnectWallet ==
    /\ ShowsConnectButton
    /\ ConnectButtonEnabled
    /\ IF ~hasWallet
       THEN /\ error' = <<NoWalletMessage>>
            /\ UNCHANGED <<isConnecting, connect>>
       ELSE /\ isConnecting' = TRUE
            /\ error' = Null
            /\ connect' = [ConnectIdle EXCEPT !.pc = "eth_requestAccounts"]
    /\ last' = Event("connectWallet", 0, "")
    /\ UNCHANGED <<hasWallet, account, isWhitelisted, fundData, lpData,
                   navHistory, loading, fund, mount, runs>>

RequestAccountsResolved(accounts) ==
    /\ connect.pc = "eth_requestAccounts"
    /\ IF Len(accounts) > 0
       THEN connect' = [connect EXCEPT !.pc = "eth_chainId", !.addr = accounts[1]]
       ELSE connect' = [connect EXCEPT !.pc = "idle"]
    /\ last' = Event("eth_requestAccounts:resolved", Len(accounts), "")
    /\ UNCHANGED <<hasWallet, uiVars, fund, mount, runs>>

RequestAccountsRejected ==
    /\ connect.pc = "eth_requestAccounts"
    /\ catchConnect("eth_requestAccounts")
    /\ last' = Event("eth_requestAccounts:rejected", 0, "")
    /\ UNCHANGED <<hasWallet, account, isWhitelisted, fundData, lpData,
                   navHistory, loading, fund, mount, runs>>

ChainIdResolved(chainId) ==
    /\ connect.pc = "eth_chainId"
    /\ IF parseInt16(chainId) # ConfigChainId
       THEN /\ connect' = [connect EXCEPT !.pc = "wallet_switchEthereumChain",
                                          !.chain = parseInt16(chainId),
                                          !.issued = @ \cup {"wallet_switchEthereumChain"}]
            /\ UNCHANGED runs
       ELSE /\ startLPData(connect.addr, "connectWallet")
            /\ connect' = [connect EXCEPT !.pc = "loadLPData",
                                          !.chain = parseInt16(chainId),
                                          !.loads = @ + 1]
    /\ last' = Event("eth_chainId:resolved", 0, "")
    /\ UNCHANGED <<hasWallet, uiVars, fund, mount>>

ChainIdRejected ==
    /\ connect.pc = "eth_chainId"
    /\ catchConnect("eth_chainId")
    /\ last' = Event("eth_chainId:rejected", 0, "")
    /\ UNCHANGED <<hasWallet, account, isWhitelisted, fundData, lpData,
                   navHistory, loading, fund, mount, runs>>

SwitchChainResolved ==
    /\ connect.pc = "wallet_switchEthereumChain"
    /\ connectLoadLPData
    /\ last' = Event("wallet_switchEthereumChain:resolved", 0, "")
    /\ UNCHANGED <<hasWallet, uiVars, fund, mount>>

\* Variant that registers the chain whatever the switch error is.
SwitchChainRejectedAnyCode(code) ==
    /\ connect.pc = "wallet_switchEthereumChain"
    /\ connect' = [connect EXCEPT !.pc = "wallet_addEthereumChain",
                                   !.issued = @ \cup {"wallet_addEthereumChain"}]
    /\ last' = Event("wallet_switchEthereumChain:rejected", code, "")
    /\ UNCHANGED <<hasWallet, uiVars, fund, mount, runs>>

SwitchChainRejected(code) ==
    /\ connect.pc = "wallet_switchEthereumChain"
    /\ IF code = UnknownChainCode
       THEN /\ connect' = [connect EXCEPT !.pc = "wallet_addEthereumChain",
                                          !.issued = @ \cup {"wallet_addEthereumChain"}]
            /\ UNCHANGED runs
       ELSE connectLoadLPData
    /\ last' = Event("wallet_switchEthereumChain:rejected", code, "")
    /\ UNCHANGED <<hasWallet, uiVars, fund, mount>>

AddChainResolved ==
    /\ connect.pc = "wallet_addEthereumChain"
    /\ connectLoadLPData
    /\ last' = Event("wallet_addEthereumChain:resolved", 0, "")
    /\ UNCHANGED <<hasWallet, uiVars, fund, mount>>

AddChainRejected ==
    /\ connect.pc = "wallet_addEthereumChain"
    /\ catchConnect("wallet_addEthereumChain")
    /\ last' = Event("wallet_addEthereumChain:rejected", 0, "")
    /\ UNCHANGED <<hasWallet, account, isWhitelisted, fundData, lpData,
                   navHistory, loading, fund, mount, runs>>

\* -------------------------------------------------------- disconnectWallet
\* Variant that clears the account and leaves the position to a later step.
disconnectWalletLazy ==
    /\ account' = Null
    /\ UNCHANGED <<isWhitelisted, lpData>>

disconnectWallet ==
    /\ account' = Null
    /\ isWhitelisted' = FALSE
    /\ lpData' = Null

\* The user presses Disconnect (shown while account is not null).
DisconnectWallet ==
    /\ ~ShowsConnectButton
    /\ disconnectWallet
    /\ last' = Event("disconnectWallet", 0, "")
    /\ UNCHANGED <<hasWallet, isConnecting, fundData, navHistory, error,
                   loading, fund, connect, mount, runs>>

\* ---------------------------------------------------- checkConnectedWallet
CheckConnectedResolved(accounts) ==
    /\ mount = "eth_accounts"
    /\ mount' = "done"
    /\ IF Len(accounts) > 0
       THEN /\ account' = <<accounts[1]>>
            /\ startLPData(accounts[1], "checkConnectedWallet")
       ELSE UNCHANGED <<account, runs>>
    /\ last' = Event("eth_accounts:resolved", Len(accounts), "")
    /\ UNCHANGED <<hasWallet, isConnecting, isWhitelisted, fundData,
                   lpData, navHistory, error, loading, fund, connect>>

CheckConnectedRejected ==
    /\ mount = "eth_accounts"
    /\ mount' = "done"
    /\ last' = Event("eth_accounts:rejected", 0, "")
    /\ UNCHANGED <<hasWallet, uiVars, fund, connect, runs>>

\* ------------------------------------------------------------ wallet events
AccountsChanged(accounts) ==
    /\ hasWallet
    /\ IF Len(accounts) > 0
       THEN /\ account' = <<accounts[1]>>
            /\ startLPData(accounts[1], "accountsChanged")
            /\ UNCHANGED <<isWhitelisted, lpData>>
       ELSE /\ disconnectWallet
            /\ UNCHANGED runs
    /\ last' = Event("accountsChanged", Len(accounts), "")
    /\ UNCHANGED <<hasWallet, isConnecting, fundData, navHistory, error,
                   loading, fund, connect, mount>>

\* window.location.reload(): the page, its state and its pending calls are
\* dropped and the component mounts again.
ChainChanged ==
    /\ hasWallet
    /\ account' = Null
    /\ isConnecting' = FALSE
    /\ isWhitelisted' = FALSE
    /\ fundData' = Null
    /\ lpData' = Null
    /\ navHistory' = <<>>
    /\ error' = Null
    /\ loading' = TRUE
    /\ fund' = FundStart
    /\ connect' = ConnectIdle
    /\ mount' = "eth_accounts"
    /\ runs' = EmptyBag
    /\ last' = Event("chainChanged", 0, "")
    /\ UNCHANGED hasWallet

\* --------------------------------------------------------------------- Next
FundNext ==
    \/ \E len \in 0..MaxHistory : FundScalarsResolved(len)
    \/ \E read \in FundReads : FundScalarsRejected(read)
    \/ FundHistoryResolved
    \/ FundHistoryRejected

WalletNext ==
    \/ ConnectWallet
    \/ \E accounts \in AccountLists : RequestAccountsResolved(accounts)
    \/ RequestAccountsRejected
    \/ \E chainId \in WalletChains : ChainIdResolved(chainId)
    \/ ChainIdRejected
    \/ SwitchChainResolved
    \/ \E code \in SwitchErrorCodes : SwitchChainRejected(code)
    \/ AddChainResolved
    \/ AddChainRejected
    \/ \E r \in InFlight : LoadLPDataResolved(r)
    \/ \E r \in InFlight, read \in LPReads : LoadLPDataRejected(r, read)
    \/ DisconnectWallet
    \/ \E accounts \in AccountLists : CheckConnectedResolved(accounts)
    \/ CheckConnectedRejected
    \/ \E accounts \in AccountLists : AccountsChanged(accounts)
    \/ ChainChanged

Next == FundNext \/ WalletNext

Spec == Init /\ [][Next]_vars

\* The reads of loadLPData followed one by one, for the calls made by the
\* mount-time detection and the accountsChanged handler, with at most
\* MaxTracked calls in flight.
ReadsNext ==
    \/ \E accounts \in AccountLists :
          /\ CheckConnectedResolved(accounts)
          /\ BagCardinality(runs') <= MaxTracked
    \/ CheckConnectedRejected
    \/ \E accounts \in AccountLists :
          /\ AccountsChanged(accounts)
          /\ BagCardinality(runs') <= MaxTracked
    \/ DisconnectWallet
    \/ \E r \in InFlight, read \in LPReads : LPReadResolved(r, read)
    \/ \E r \in InFlight, read \in LPReads : LastReadResolved(r, read)
    \/ \E r \in InFlight, read \in LPReads : LoadLPDataRejected(r, read)

SpecReads == Init /\ [][ReadsNext]_vars

\* ------------------------------------------------------------------ claims
IsDisconnectStep ==
    \/ last.op = "disconnectWallet"
    \/ last.op = "accountsChanged" /\ last.arg = 0

\* C1: while a loadLPData run for an address is in flight, that address is
\* not shown as the connected account: the account is published only once
\* the run for it has resolved or failed.
C1_AccountPublishedAfterLoad ==
    \A r \in InFlight : account # <<r.addr>>

\* C2: the position is held if and only if an account is connected and
\* whitelisted.
C2_PositionIffConnectedWhitelisted ==
    (lpData # Null) <=> (account # Null /\ isWhitelisted)

\* C3: the state right after a disconnect (the Disconnect button, or an
\* accountsChanged event with an empty list) has account, isWhitelisted and
\* lpData all cleared.
C3_DisconnectClearsAll ==
    IsDisconnectStep => (account = Null /\ ~isWhitelisted /\ lpData = Null)

C3_Witness ==
    /\ last.op = "accountsChanged"
    /\ last.arg = 0
    /\ last.had
    /\ account = Null /\ ~isWhitelisted /\ lpData = Null

\* C4: the completion of a loadLPData run whose address is no longer the
\* connected account (the account was switched or disconnected while the run
\* was in flight) commits neither isWhitelisted nor lpData.
C4_SupersededRunDiscarded ==
    [][\A r \in InFlight :
          (/\ r.origin # "connectWallet"
           /\ account # <<r.addr>>
           /\ last'.op = "loadLPData:resolved"
           /\ last'.arg = r.addr
           /\ last'.origin = r.origin)
          => UNCHANGED <<isWhitelisted, lpData>>]_vars

\* C5: when the wallet denies account access, or the chain switch fails with
\* a code other than 4902, the connect attempt is over: not connecting any
\* more, with an error message set, and never to publish an account.
C5_FailedConnectEndsDisconnected ==
    (\/ last.op = "eth_requestAccounts:rejected"
     \/ last.op = "wallet_switchEthereumChain:rejected" /\ last.arg # UnknownChainCode)
    => (connect.pc = "idle" /\ ~isConnecting /\ error # Null)

\* C6: a connect attempt has issued a chain switch request if and only if
\* the wallet reported a chain other than the configured one; a chain
\* registration request is issued only by the step in which the switch
\* request fails with code 4902; and once the wallet has reported the
\* configured chain, no such request has been issued and loadLPData has
\* been called exactly once, for the granted address.
C6_SwitchIffChainDiffers ==
    /\ ("wallet_switchEthereumChain" \in connect.issued)
          <=> (connect.chain # -1 /\ connect.chain # ConfigChainId)
    /\ ("wallet_addEthereumChain" \in connect.issued)
          => ("wallet_switchEthereumChain" \in connect.issued)
    /\ connect.chain = ConfigChainId
          => (connect.issued = {} /\ connect.loads = 1)
    /\ connect.loads <= 1
    /\ connect.pc = "loadLPData"
          => (/\ connect.loads = 1
              /\ \E r \in InFlight :
                    /\ r.origin = "connectWallet"
                    /\ r.addr = connect.addr
                    /\ CopiesIn(r, runs) = 1
              /\ \A r \in InFlight :
                    r.origin = "connectWallet" => r.addr = connect.addr)

\* C6: the conditions above hold in every state, and the chain registration
\* request is issued only by the step that handles a switch failure 4902.
C6_ChainRequests ==
    /\ []C6_SwitchIffChainDiffers
    /\ [][("wallet_addEthereumChain" \in connect'.issued
            /\ "wallet_addEthereumChain" \notin connect.issued)
          => (/\ connect.pc = "wallet_switchEthereumChain"
              /\ last'.op = "wallet_switchEthereumChain:rejected"
              /\ last'.arg = UnknownChainCode)]_vars

C6_Witness ==
    /\ last.op = "loadLPData:resolved"
    /\ last.origin = "connectWallet"
    /\ connect.chain = ConfigChainId
    /\ connect.issued = {}
    /\ connect.loads = 1
    /\ account = <<connect.addr>>

\* C7: a loadFundData run that fails, at any of its reads, ends with loading
\* false and an error message set; a run that succeeds ends with loading
\* false; and a finished run is not started again, short of a page reload.
C7_FundLoadFinished ==
    /\ (last.op \in {"loadFundData:scalarsRejected", "loadFundData:historyRejected"})
          => (fund.pc = "failed" /\ ~loading /\ error # Null)
    /\ fund.pc \in {"done", "failed"} => ~loading
    /\ fund.pc \in {"scalars", "history"} => loading

\* C7: the conditions above hold in every state, and a finished loadFundData
\* run leaves its final position only through a page reload.
C7_FundLoadEnds ==
    /\ []C7_FundLoadFinished
    /\ [][fund.pc \in {"done", "failed"}
          => (fund'.pc = fund.pc \/ last'.op = "chainChanged")]_vars

C7_Witness ==
    /\ last.op = "loadFundData:historyRejected"
    /\ last.arg = 1
    /\ fundData # Null
    /\ ~loading
    /\ error = <<FundErrorMessage>>

\* C8 as stated: after a failed loadLPData run the error slot is set.
C8_FailureSurfaced ==
    last.op = "loadLPData:rejected" => error # Null

\* C8 amended: a failed loadLPData run is caught and only logged: the step
\* leaves the error slot, isWhitelisted and lpData as they were.
C8_FailureOnlyLogged ==
    [][last'.op = "loadLPData:rejected"
       => UNCHANGED <<error, isWhitelisted, lpData>>]_vars

C8_Witness ==
    /\ last.op = "loadLPData:rejected"
    /\ account # Null
    /\ error = Null

\* C9 as stated: after loadLPData has failed inside connectWallet the granted
\* address is the account, isConnecting is false and no position is held.
C9_FailedLoadConnectsUnpopulated ==
    (last.op = "loadLPData:rejected" /\ last.origin = "connectWallet")
    => (/\ account = <<last.arg>>
        /\ ~isConnecting
        /\ lpData = Null
        /\ ~isWhitelisted)

\* C9 amended: after loadLPData has failed inside connectWallet the granted
\* address is the account and isConnecting is false; isWhitelisted and lpData
\* are what they were before the failure, so the position is unpopulated
\* unless another loadLPData run has populated it.
C9_FailedLoadStillConnects ==
    [][(last'.op = "loadLPData:rejected" /\ last'.origin = "connectWallet")
       => (/\ account' = <<last'.arg>>
           /\ ~isConnecting'
           /\ connect'.pc = "idle"
           /\ UNCHANGED <<isWhitelisted, lpData>>)]_vars

C9_Witness ==
    /\ last.op = "loadLPData:rejected"
    /\ last.origin = "connectWallet"
    /\ account = <<last.arg>>
    /\ ~isConnecting
    /\ lpData = Null
    /\ ~isWhitelisted

\* C10: after a loadLPData run for the connected address has completed with
\* whitelist status false, isWhitelisted is false, no position is held and
\* the page shows 'Wallet Not Whitelisted', not 'Your Investment'.
C10_NotWhitelistedHasNoPosition ==
    (/\ last.op = "loadLPData:resolved"
     /\ ~Whitelist(last.arg)
     /\ account = <<last.arg>>)
    => (/\ ~isWhitelisted
        /\ lpData = Null
        /\ ShowsNotWhitelisted
        /\ ~ShowsYourInvestment)

\* C11 (states): after a successful loadFundData the i-th point of navHistory
\* is the contract's history entry i, in ascending index order and so with
\* non-decreasing timestamps; with a history length of 0 navHistory is empty;
\* the chart is shown only when navHistory has more than one point.
C11_HistoryInIndexOrder ==
    /\ fund.pc = "done"
          => (/\ \A i \in 1..Len(navHistory) : navHistory[i] = NavPoint(i - 1)
              /\ \A i \in 1..(Len(navHistory) - 1) :
                    navHistory[i].timestamp <= navHistory[i + 1].timestamp
              /\ ShowsChart <=> Len(navHistory) > 1)
    /\ (last.op = "loadFundData:scalars" /\ last.arg = 0)
          => (fund.pc = "done" /\ navHistory = <<>> /\ ~ShowsChart)
    /\ ShowsChart => Len(navHistory) > 1

\* C11: the conditions above hold in every state, and the step that ends a
\* successful loadFundData publishes exactly navHistoryLength points.
C11_NavHistory ==
    /\ []C11_HistoryInIndexOrder
    /\ [][(fund.pc = "history" /\ fund'.pc = "done")
          => Len(navHistory') = fund.historyLen]_vars

C11_Witness ==
    /\ fund.pc = "done"
    /\ last.op = "loadFundData:history"
    /\ Len(navHistory) = 2
    /\ navHistory[1] = NavPoint(0)
    /\ navHistory[2] = NavPoint(1)
    /\ ShowsChart

\* C12: the steps in which one read of a loadLPData run resolves while others
\* are outstanding, or in which a read rejects, write neither isWhitelisted
\* nor lpData; the step that commits them is the one in which the last
\* outstanding read of the run resolves; and nothing else writes them but a
\* disconnect.
C12_CommitAfterAllReads ==
    [][/\ last'.op \in {"loadLPData:readResolved", "loadLPData:rejected"}
          => UNCHANGED <<isWhitelisted, lpData>>
       /\ last'.op = "loadLPData:resolved"
          => \E r \in InFlight :
                /\ r.addr = last'.arg
                /\ r.origin = last'.origin
                /\ Cardinality(r.pending) = 1
                /\ runs' = runs (-) SetToBag({r})
       /\ (isWhitelisted' # isWhitelisted \/ lpData' # lpData)
          => last'.op \in {"loadLPData:resolved", "disconnectWallet",
                           "accountsChanged"}]_vars

\* Four reads of a run for a whitelisted account are back, the balance among
\* them, the whitelist read is still outstanding, and nothing is written.
C12_Witness ==
    \E r \in InFlight :
        /\ r.pending = {"whitelist"}
        /\ last.op = "loadLPData:readResolved"
        /\ account = <<r.addr>>
        /\ Whitelist(r.addr)
        /\ ~isWhitelisted
        /\ lpData = Null

\* C13: isConnecting is true only while a connectWallet call is still
\* awaiting a response: once its wallet requests have all returned (granted,
\* denied or an empty account list) isConnecting is false again.
C13_ConnectingOnlyWhileAwaiting ==
    isConnecting => connect.pc # "idle"

====
